---- MODULE Spec2Model ----
(***************************************************************************)
(* The Application lifecycle state machine of the YuniKorn k8shim          *)
(* (pkg/cache/application.go): the transition table, handle(), Schedule(), *)
(* the gang decision, the reservation callbacks and the asynchronous work  *)
(* they spawn, together with the event dispatcher's queue.                 *)
(***************************************************************************)
EXTENDS Naturals, Sequences, FiniteSets, TLC

\* ------------------------------------------------------------------ bounds
MaxTasks == 1       \* tasks that join an application whose lifecycle runs
MaxOwned == 2       \* task identifiers 1..MaxOwned: the entries of a task map
MaxQueue == 3       \* events waiting in the dispatcher
MaxThreads == 2     \* goroutines calling into the application at once
MaxAskCPU == 30000  \* setTaskGroups is called while the ask is below this

\* ------------------------------------------------------------ vocabulary
\* events.States().Application
States ==
    {"New", "Submitted", "Recovering", "Accepted", "Reserving", "Running",
     "Completed", "Rejected", "Failed", "Killing", "Killed"}

\* the application events of the transition table
SubmitApplication == "SubmitApplication"
RecoverApplication == "RecoverApplication"
AcceptApplication == "AcceptApplication"
TryReserve == "TryReserve"
UpdateReservation == "UpdateReservation"
RunApplication == "RunApplication"
ReleaseAppAllocation == "ReleaseAppAllocation"
ReleaseAppAllocationAsk == "ReleaseAppAllocationAsk"
CompleteApplication == "CompleteApplication"
RejectApplication == "RejectApplication"
FailApplication == "FailApplication"
KillApplication == "KillApplication"
KilledApplication == "KilledApplication"

Events ==
    {SubmitApplication, RecoverApplication, AcceptApplication, TryReserve,
     UpdateReservation, RunApplication, ReleaseAppAllocation,
     ReleaseAppAllocationAsk, CompleteApplication, RejectApplication,
     FailApplication, KillApplication, KilledApplication}

\* events.States().Task, as far as the application reads them
TaskStates == {"New", "Pending", "Scheduling", "Allocated", "Bound"}

\* the task states Task.isTerminated() answers true in
TerminatedTaskStates == {"Completed", "Killed", "Rejected", "Failed"}

\* every state a task of the map can be in
AllTaskStates == TaskStates \cup TerminatedTaskStates

TaskIDs == 1..MaxOwned

\* the identifiers of the tasks that join while the lifecycle runs
Joining == 1..MaxTasks
GroupNames == {"g1", "g2"}
NoTask == [state |-> "none"]

\* a task as the application sees it: Task.GetTaskState(), Task.placeholder,
\* Task.taskGroupName, Task.allocationUUID. The pods of the model all belong to task group g1.
Task(st, ph) ==
    [state |-> st, placeholder |-> ph, taskGroupName |-> "g1", allocationUUID |-> ""]

\* the allocation identifiers the scheduler core hands out
AllocationUUIDs == {"uuid1", "uuid2"}

\* a task that was given an allocation: Task.allocationUUID is set
Allocated(st, ph, uuid) == [Task(st, ph) EXCEPT !.allocationUUID = uuid]

\* v1alpha1.TaskGroup: Name and MinMember
TaskGroup(n, m) == [name |-> n, minMember |-> m]

\* the task-group lists handed to setTaskGroups: none, one group of one or two
\* members, and the groups of 10 and 20 members of TestTryReserve
TaskGroupLists ==
    { <<>>,
      <<TaskGroup("g1", 1)>>,
      <<TaskGroup("g1", 2)>>,
      <<TaskGroup("g1", 10), TaskGroup("g2", 20)>> }

\* si.Resource of the placeholder ask: CPU in milli-units, memory in the
\* scheduler's unit M
NoResource == [cpu |-> 0, memory |-> 0]

\* TaskGroup.MinResource, by group name as in
\* TestSetTaskGroupsAndSchedulingPolicy: 500m CPU and 500Mi for the first
\* group, 1000m and 1000Mi for the second. CPU in milli-units, memory in
\* units of 1000 bytes (500Mi = 524288000 bytes).
MinResource(n) ==
    IF n = "g1" THEN [cpu |-> 500, memory |-> 524288]
                ELSE [cpu |-> 1000, memory |-> 1048576]

\* a memory quantity scaled to the scheduler's unit M (10^6 bytes), rounded up
RoundUpToM(kb) == (kb + 999) \div 1000

\* common.GetTGResource: the per-member resource converted to the scheduler's
\* units, each amount rounded up, and then multiplied by the member count
GetTGResource(res, members) ==
    [cpu |-> res.cpu * members, memory |-> RoundUpToM(res.memory) * members]

\* common.Add on two resources
ResourceAdd(a, b) == [cpu |-> a.cpu + b.cpu, memory |-> a.memory + b.memory]

\* the loop of setTaskGroups: every group's resource is added to the ask
RECURSIVE AccumulateAsk(_, _)
AccumulateAsk(ask, tgs) ==
    IF tgs = <<>> THEN ask
    ELSE AccumulateAsk(
            ResourceAdd(ask, GetTGResource(MinResource(Head(tgs).name), Head(tgs).minMember)),
            Tail(tgs))

\* mutant: the ask is recomputed from scratch by every call
setTaskGroups_Resets(ask, tgs) ==
    [taskGroups |-> tgs, placeholderAsk |-> AccumulateAsk(NoResource, tgs)]

\* the groups' resources multiplied by the member count first and rounded up
\* afterwards
RECURSIVE AccumulateProducts(_, _)
AccumulateProducts(ask, tgs) ==
    IF tgs = <<>> THEN ask
    ELSE LET res == MinResource(Head(tgs).name)
             m == Head(tgs).minMember
         IN AccumulateProducts(
                ResourceAdd(ask, [cpu |-> res.cpu * m, memory |-> RoundUpToM(res.memory * m)]),
                Tail(tgs))

\* mutant: the product of amount and member count is rounded, not the amount
setTaskGroups_MultipliesFirst(ask, tgs) ==
    [taskGroups |-> tgs, placeholderAsk |-> AccumulateProducts(ask, tgs)]

\* Application.setTaskGroups: the groups replace the ones held, their
\* resources are added to the ask held
setTaskGroups(ask, tgs) ==
    [taskGroups |-> tgs, placeholderAsk |-> AccumulateAsk(ask, tgs)]

\* who dispatched an event: the gang decision, the reservation callback, the
\* placeholder goroutine, the submit / recover / reject callbacks
Origins == {"accepted", "quorum", "createFailed", "submit", "recover", "reject"}

Event(e, o) == [ev |-> e, origin |-> o]

\* no direct handle() call has just returned
NoRet == [ev |-> "none", err |-> "nil"]

\* a step without effect on the collaborators and without a result: no
\* recorder event, no termination type set, no pod deletion requested, no
\* call on the task map (op, the identifier and the task it was given, the
\* error, the task or the aliases it returned), no Update request sent
NoOut ==
    [notified |-> [t \in TaskIDs |-> 0], terminated |-> {}, deleted |-> {},
     op |-> "none", id |-> 0, err |-> "nil", task |-> NoTask,
     aliases |-> {}, request |-> <<>>]

\* the goroutines that call into one application at the same time
Threads == 1..MaxThreads

\* a goroutine that is not inside a method of the application
NoCall == [callback |-> "none", callee |-> "none", lock |-> "none", io |-> FALSE, go |-> FALSE]
Idle == [op |-> "none", pc |-> "idle", call |-> NoCall]

VARIABLES
    state,        \* app.sm.Current()
    taskGroups,   \* app.taskGroups
    taskMap,      \* app.taskMap
    queue,        \* events dispatched and not yet delivered
    api,          \* the Scheduler API: Update calls made, and whether one succeeded
    pm,           \* the placeholder manager and the goroutine of onReserving
    ret,          \* what the step just taken returned to its caller, when it was a
                  \* direct handle() call: the event and the error
    sched,        \* the branch a running Schedule() call has chosen
    hist,         \* history: the first gang decision taken by postAppAccepted, and
                  \* whether one taken in Accepted chose to run
    out,          \* what the call just made did to the collaborators (recorder
                  \* events per task, termination types set, pod deletions
                  \* requested) and what a call on the task map was given and
                  \* returned
    placeholderAsk,  \* app.placeholderAsk
    threads,      \* per goroutine: the method it is in and where in it
    placeholderTimeoutInSec  \* app.placeholderTimeoutInSec

vars ==
    <<state, taskGroups, taskMap, queue, api, pm, ret, sched, hist, out,
      placeholderAsk, threads, placeholderTimeoutInSec>>

\* ------------------------------------------------------- transition table
\* mutant: the row of Accept forgets the source state Recovering
Transitions_AcceptOnlySubmitted ==
    { [name |-> SubmitApplication, src |-> {"New"}, dst |-> "Submitted"],
      [name |-> RecoverApplication, src |-> {"New"}, dst |-> "Recovering"],
      [name |-> AcceptApplication, src |-> {"Submitted"}, dst |-> "Accepted"],
      [name |-> TryReserve, src |-> {"Accepted"}, dst |-> "Reserving"],
      [name |-> UpdateReservation, src |-> {"Reserving"}, dst |-> "Reserving"],
      [name |-> RunApplication, src |-> {"Accepted", "Reserving", "Running"}, dst |-> "Running"],
      [name |-> ReleaseAppAllocation, src |-> {"Running"}, dst |-> "Running"],
      [name |-> ReleaseAppAllocation, src |-> {"Failed"}, dst |-> "Failed"],
      [name |-> ReleaseAppAllocationAsk, src |-> {"Running", "Accepted", "Reserving"}, dst |-> "Running"],
      [name |-> ReleaseAppAllocationAsk, src |-> {"Failed"}, dst |-> "Failed"],
      [name |-> CompleteApplication, src |-> {"Running"}, dst |-> "Completed"],
      [name |-> RejectApplication, src |-> {"Submitted"}, dst |-> "Rejected"],
      [name |-> FailApplication,
       src |-> {"Submitted", "Rejected", "Accepted", "Running", "Reserving"}, dst |-> "Failed"],
      [name |-> KillApplication, src |-> {"Accepted", "Running", "Reserving"}, dst |-> "Killing"],
      [name |-> KilledApplication, src |-> {"Killing"}, dst |-> "Killed"] }

\* mutant: Kill is accepted from every state
Transitions_KillFromAnyState ==
    { [name |-> SubmitApplication, src |-> {"New"}, dst |-> "Submitted"],
      [name |-> RecoverApplication, src |-> {"New"}, dst |-> "Recovering"],
      [name |-> AcceptApplication, src |-> {"Submitted", "Recovering"}, dst |-> "Accepted"],
      [name |-> TryReserve, src |-> {"Accepted"}, dst |-> "Reserving"],
      [name |-> UpdateReservation, src |-> {"Reserving"}, dst |-> "Reserving"],
      [name |-> RunApplication, src |-> {"Accepted", "Reserving", "Running"}, dst |-> "Running"],
      [name |-> ReleaseAppAllocation, src |-> {"Running"}, dst |-> "Running"],
      [name |-> ReleaseAppAllocation, src |-> {"Failed"}, dst |-> "Failed"],
      [name |-> ReleaseAppAllocationAsk, src |-> {"Running", "Accepted", "Reserving"}, dst |-> "Running"],
      [name |-> ReleaseAppAllocationAsk, src |-> {"Failed"}, dst |-> "Failed"],
      [name |-> CompleteApplication, src |-> {"Running"}, dst |-> "Completed"],
      [name |-> RejectApplication, src |-> {"Submitted"}, dst |-> "Rejected"],
      [name |-> FailApplication,
       src |-> {"Submitted", "Rejected", "Accepted", "Running", "Reserving"}, dst |-> "Failed"],
      [name |-> KillApplication, src |-> States, dst |-> "Killing"],
      [name |-> KilledApplication, src |-> {"Killing"}, dst |-> "Killed"] }

\* mutant: Run is accepted from Submitted too
Transitions_RunFromSubmitted ==
    { [name |-> SubmitApplication, src |-> {"New"}, dst |-> "Submitted"],
      [name |-> RecoverApplication, src |-> {"New"}, dst |-> "Recovering"],
      [name |-> AcceptApplication, src |-> {"Submitted", "Recovering"}, dst |-> "Accepted"],
      [name |-> TryReserve, src |-> {"Accepted"}, dst |-> "Reserving"],
      [name |-> UpdateReservation, src |-> {"Reserving"}, dst |-> "Reserving"],
      [name |-> RunApplication,
       src |-> {"Submitted", "Accepted", "Reserving", "Running"}, dst |-> "Running"],
      [name |-> ReleaseAppAllocation, src |-> {"Running"}, dst |-> "Running"],
      [name |-> ReleaseAppAllocation, src |-> {"Failed"}, dst |-> "Failed"],
      [name |-> ReleaseAppAllocationAsk, src |-> {"Running", "Accepted", "Reserving"}, dst |-> "Running"],
      [name |-> ReleaseAppAllocationAsk, src |-> {"Failed"}, dst |-> "Failed"],
      [name |-> CompleteApplication, src |-> {"Running"}, dst |-> "Completed"],
      [name |-> RejectApplication, src |-> {"Submitted"}, dst |-> "Rejected"],
      [name |-> FailApplication,
       src |-> {"Submitted", "Rejected", "Accepted", "Running", "Reserving"}, dst |-> "Failed"],
      [name |-> KillApplication, src |-> {"Accepted", "Running", "Reserving"}, dst |-> "Killing"],
      [name |-> KilledApplication, src |-> {"Killing"}, dst |-> "Killed"] }

\* fsm.Events of NewApplication
Transitions ==
    { [name |-> SubmitApplication, src |-> {"New"}, dst |-> "Submitted"],
      [name |-> RecoverApplication, src |-> {"New"}, dst |-> "Recovering"],
      [name |-> AcceptApplication, src |-> {"Submitted", "Recovering"}, dst |-> "Accepted"],
      [name |-> TryReserve, src |-> {"Accepted"}, dst |-> "Reserving"],
      [name |-> UpdateReservation, src |-> {"Reserving"}, dst |-> "Reserving"],
      [name |-> RunApplication, src |-> {"Accepted", "Reserving", "Running"}, dst |-> "Running"],
      [name |-> ReleaseAppAllocation, src |-> {"Running"}, dst |-> "Running"],
      [name |-> ReleaseAppAllocation, src |-> {"Failed"}, dst |-> "Failed"],
      [name |-> ReleaseAppAllocationAsk, src |-> {"Running", "Accepted", "Reserving"}, dst |-> "Running"],
      [name |-> ReleaseAppAllocationAsk, src |-> {"Failed"}, dst |-> "Failed"],
      [name |-> CompleteApplication, src |-> {"Running"}, dst |-> "Completed"],
      [name |-> RejectApplication, src |-> {"Submitted"}, dst |-> "Rejected"],
      [name |-> FailApplication,
       src |-> {"Submitted", "Rejected", "Accepted", "Running", "Reserving"}, dst |-> "Failed"],
      [name |-> KillApplication, src |-> {"Accepted", "Running", "Reserving"}, dst |-> "Killing"],
      [name |-> KilledApplication, src |-> {"Killing"}, dst |-> "Killed"] }

\* app.sm.Can(event): the table has a row for the event from state s
canHandle(s, e) == \E t \in Transitions : t.name = e /\ s \in t.src

\* the destination of that row
Destination(s, e) == (CHOOSE t \in Transitions : t.name = e /\ s \in t.src).dst

\* ------------------------------------------------------------- helpers
\* dispatcher.Dispatch: the event joins the end of the dispatcher's queue
Dispatch(q, ev) == Append(q, ev)

\* app.getTasks(state): the owned tasks in that task state
getTasks(tm, st) == {t \in TaskIDs : tm[t].state = st}

\* the sum of MinMember over a list of task groups
RECURSIVE SumMinMember(_)
SumMinMember(tgs) ==
    IF tgs = <<>> THEN 0 ELSE Head(tgs).minMember + SumMinMember(Tail(tgs))

\* utils.TaskGroupInstanceCountMap built by Add(tg.Name, tg.MinMember): the
\* groups named, each with the sum of the MinMember given for it
desireCounts(tgs) ==
    [n \in {tgs[i].name : i \in DOMAIN tgs} |->
        SumMinMember(SelectSeq(tgs, LAMBDA g : g.name = n))]

\* mutant: every Bound task is counted, placeholder or not
actualCounts_AllBound(tm) ==
    [n \in {tm[t].taskGroupName : t \in getTasks(tm, "Bound")} |->
        Cardinality({t \in getTasks(tm, "Bound") : tm[t].taskGroupName = n})]

\* the map built by AddOne(t.taskGroupName) over the Bound placeholder tasks
actualCounts(tm) ==
    LET bound == {t \in getTasks(tm, "Bound") : tm[t].placeholder}
    IN [n \in {tm[t].taskGroupName : t \in bound} |->
            Cardinality({t \in bound : tm[t].taskGroupName = n})]

\* TaskGroupInstanceCountMap.Equals: the same groups with the same counts
CountsEqual(a, b) == a = b

\* the gang condition of postAppAccepted: task groups defined, nothing Allocated
GangCondition(tgs, tm) == Len(tgs) # 0 /\ Cardinality(getTasks(tm, "Allocated")) = 0

\* ------------------------------------------------------------ callbacks
\* A callback maps the application and its collaborators w to what they are
\* after it ran. r is the answer of the Scheduler API to Update.

\* the attributes of the application that never change after NewApplication
AppAttributes ==
    [ApplicationID |-> "app", QueueName |-> "queue", PartitionName |-> "default",
     User |-> "user", Tags |-> "tags"]

\* si.AddApplicationRequest as handleSubmitApplicationEvent fills it
SubmitRequest(w) ==
    [ApplicationID |-> AppAttributes.ApplicationID,
     QueueName |-> AppAttributes.QueueName,
     PartitionName |-> AppAttributes.PartitionName,
     User |-> AppAttributes.User,
     Tags |-> AppAttributes.Tags,
     PlaceholderAsk |-> w.placeholderAsk,
     ExecutionTimeoutMilliSeconds |-> w.placeholderTimeoutInSec * 1000]

\* si.AddApplicationRequest as handleRecoverApplicationEvent fills it: the
\* field PlaceholderAsk is not set and keeps its zero value, an empty ask
RecoverRequest(w) ==
    [ApplicationID |-> AppAttributes.ApplicationID,
     QueueName |-> AppAttributes.QueueName,
     PartitionName |-> AppAttributes.PartitionName,
     User |-> AppAttributes.User,
     Tags |-> AppAttributes.Tags,
     PlaceholderAsk |-> NoResource,
     ExecutionTimeoutMilliSeconds |-> w.placeholderTimeoutInSec * 1000]

\* mutant: a failed submission dispatches nothing
handleSubmitApplicationEvent_NoFail(w, r) ==
    [w EXCEPT !.api.updates = @ + 1, !.api.ok = @ \/ r = "ok",
              !.out.request = <<SubmitRequest(w)>>]

\* handleSubmitApplicationEvent: Update is called with one new application;
\* when it fails, a Fail event is dispatched
handleSubmitApplicationEvent(w, r) ==
    LET called == [w EXCEPT !.api.updates = @ + 1, !.api.ok = @ \/ r = "ok",
                            !.out.request = <<SubmitRequest(w)>>]
    IN IF r = "err"
       THEN [called EXCEPT !.queue = Dispatch(@, Event(FailApplication, "submit"))]
       ELSE called

\* handleRecoverApplicationEvent: the same with the request of the recovery
handleRecoverApplicationEvent(w, r) ==
    LET called == [w EXCEPT !.api.updates = @ + 1, !.api.ok = @ \/ r = "ok",
                            !.out.request = <<RecoverRequest(w)>>]
    IN IF r = "err"
       THEN [called EXCEPT !.queue = Dispatch(@, Event(FailApplication, "recover"))]
       ELSE called

\* mutant: a rejected application is left as it is
handleRejectApplicationEvent_NoFail(w) == w

handleRejectApplicationEvent(w) ==
    [w EXCEPT !.queue = Dispatch(@, Event(FailApplication, "reject"))]

\* go func() { getPlaceholderManager().cleanUp(app) }()
handleCompleteApplicationEvent(w) == [w EXCEPT !.pm.cleanUps = @ + 1]

\* mutant: the Allocated tasks are notified as well
handleFailApplicationEvent_NotifiesAllocated(w, r) ==
    LET cleaned == [w EXCEPT !.pm.cleanUps = @ + 1]
    IN IF ~r.ok THEN cleaned
       ELSE [cleaned EXCEPT !.out.notified =
                [t \in TaskIDs |->
                    IF w.taskMap[t] # NoTask
                       /\ w.taskMap[t].state \in {"New", "Pending", "Scheduling", "Allocated"}
                    THEN 1 ELSE 0]]

\* mutant: the warning events are sent whether or not the arguments parse
handleFailApplicationEvent_IgnoresParseError(w, r) ==
    [w EXCEPT !.pm.cleanUps = @ + 1,
              !.out.notified =
                [t \in TaskIDs |->
                    IF w.taskMap[t] # NoTask
                       /\ w.taskMap[t].state \in {"New", "Pending", "Scheduling"}
                    THEN 1 ELSE 0]]

\* handleFailApplicationEvent: the cleanUp goroutine is started; when the
\* arguments parse, the recorder gets one warning event for every task of
\* getTasks(New), of getTasks(Pending) and of getTasks(Scheduling), the three
\* lists appended
handleFailApplicationEvent(w, r) ==
    LET cleaned == [w EXCEPT !.pm.cleanUps = @ + 1]
        In(t, st) == IF t \in getTasks(w.taskMap, st) THEN 1 ELSE 0
    IN IF ~r.ok THEN cleaned
       ELSE [cleaned EXCEPT !.out.notified =
                [t \in TaskIDs |->
                    @[t] + In(t, "New") + In(t, "Pending") + In(t, "Scheduling")]]

\* the goroutine that calls createAppPlaceholders is started
onReserving(w) == [w EXCEPT !.pm.creating = "running", !.pm.createCalls = @ + 1]

\* mutant: every UpdateReservation dispatches Run
onReservationStateChange_AlwaysRuns(w) ==
    [w EXCEPT !.queue = Dispatch(@, Event(RunApplication, "quorum"))]

onReservationStateChange(w) ==
    IF CountsEqual(desireCounts(w.taskGroups), actualCounts(w.taskMap))
    THEN [w EXCEPT !.queue = Dispatch(@, Event(RunApplication, "quorum"))]
    ELSE w

\* the tasks of the map whose allocationUUID is the one given
allocatedBy(tm, uuid) == {t \in TaskIDs : tm[t] # NoTask /\ tm[t].allocationUUID = uuid}

\* mutant: the termination type is set and the pod is left alone
handleReleaseAppAllocationEvent_KeepsPod(w, r) ==
    IF ~r.ok THEN w
    ELSE [w EXCEPT !.out.terminated = @ \cup allocatedBy(w.taskMap, r.allocationUUID)]

\* handleReleaseAppAllocationEvent: nothing when the arguments do not parse;
\* every task of the map that holds the allocation gets its termination type
\* set and its pod deleted
handleReleaseAppAllocationEvent(w, r) ==
    IF ~r.ok THEN w
    ELSE [w EXCEPT !.out.terminated = @ \cup allocatedBy(w.taskMap, r.allocationUUID),
                   !.out.deleted = @ \cup allocatedBy(w.taskMap, r.allocationUUID)]

\* mutant: the pod is deleted whether or not the task is a placeholder
handleReleaseAppAllocationAskEvent_DeletesAny(w, r) ==
    IF ~r.ok THEN w
    ELSE IF w.taskMap[r.taskID] # NoTask
         THEN [w EXCEPT !.out.terminated = @ \cup {r.taskID},
                        !.out.deleted = @ \cup {r.taskID}]
         ELSE w

\* handleReleaseAppAllocationAskEvent: nothing when the arguments do not
\* parse; for a task of the map the termination type is set, and the pod is
\* deleted when the task is a placeholder; an unknown task is only logged
handleReleaseAppAllocationAskEvent(w, r) ==
    IF ~r.ok THEN w
    ELSE IF w.taskMap[r.taskID] # NoTask
         THEN LET typed == [w EXCEPT !.out.terminated = @ \cup {r.taskID}]
              IN IF w.taskMap[r.taskID].placeholder
                 THEN [typed EXCEPT !.out.deleted = @ \cup {r.taskID}]
                 ELSE typed
         ELSE w

\* fsm.Callbacks keyed by a state name: run on entering that state
enterStateCallbacks(w, dst) == IF dst = "Reserving" THEN onReserving(w) ELSE w

\* fsm.Callbacks keyed by an event name: run after the event
afterEventCallbacks(w, e, r) ==
    CASE e = SubmitApplication -> handleSubmitApplicationEvent(w, r)
      [] e = RecoverApplication -> handleRecoverApplicationEvent(w, r)
      [] e = RejectApplication -> handleRejectApplicationEvent(w)
      [] e = CompleteApplication -> handleCompleteApplicationEvent(w)
      [] e = FailApplication -> handleFailApplicationEvent(w, r)
      [] e = UpdateReservation -> onReservationStateChange(w)
      [] e = ReleaseAppAllocation -> handleReleaseAppAllocationEvent(w, r)
      [] e = ReleaseAppAllocationAsk -> handleReleaseAppAllocationAskEvent(w, r)
      [] OTHER -> w

\* mutant: the callbacks of entering a state also run when the row stays in
\* the state
smEvent_EntersOnSelfTransition(w, e, r) ==
    IF ~canHandle(w.state, e)
    THEN [w |-> w, err |-> "inappropriate"]
    ELSE LET dst == Destination(w.state, e)
         IN [w |-> afterEventCallbacks(
                        enterStateCallbacks([w EXCEPT !.state = dst], dst), e, r),
             err |-> IF dst = w.state THEN "no transition" ELSE "nil"]

\* app.sm.Event(event): an event with no row from the current state is
\* refused; a row that stays in the state runs the event's callback and
\* reports "no transition"; any other row moves to its destination, runs the
\* callbacks of entering it and then the event's callback
smEvent(w, e, r) ==
    IF ~canHandle(w.state, e)
    THEN [w |-> w, err |-> "inappropriate"]
    ELSE LET dst == Destination(w.state, e)
         IN IF dst = w.state
            THEN [w |-> afterEventCallbacks(w, e, r), err |-> "no transition"]
            ELSE [w |-> afterEventCallbacks(
                            enterStateCallbacks([w EXCEPT !.state = dst], dst), e, r),
                  err |-> "nil"]

\* mutant: handle returns nil whatever the state machine answered
handle_SwallowsErrors(w, e, r) == [w |-> smEvent(w, e, r).w, err |-> "nil"]

\* mutant: handle returns every error of the state machine, "no transition" too
handle_ReturnsNoTransition(w, e, r) == smEvent(w, e, r)

\* Application.handle: the error of the state machine is returned unless it is
\* "no transition"
handle(w, e, r) ==
    LET res == smEvent(w, e, r)
    IN [w |-> res.w,
        err |-> IF res.err # "nil" /\ res.err # "no transition" THEN res.err ELSE "nil"]

\* mutant: the gang decision never reserves
postAppAccepted_NeverReserves(w) ==
    [w EXCEPT !.queue = Dispatch(@, Event(RunApplication, "accepted"))]

\* mutant: the gang decision ignores the Allocated tasks
postAppAccepted_IgnoresAllocated(w) ==
    IF Len(w.taskGroups) # 0
    THEN [w EXCEPT !.queue =
            Dispatch(Dispatch(@, Event(TryReserve, "accepted")), Event(TryReserve, "accepted"))]
    ELSE [w EXCEPT !.queue = Dispatch(@, Event(RunApplication, "accepted"))]

\* Application.postAppAccepted: the gang decision
postAppAccepted(w) ==
    IF GangCondition(w.taskGroups, w.taskMap)
    THEN [w EXCEPT !.queue =
            Dispatch(Dispatch(@, Event(TryReserve, "accepted")), Event(TryReserve, "accepted"))]
    ELSE [w EXCEPT !.queue = Dispatch(@, Event(RunApplication, "accepted"))]

\* mutant: the schedule condition is not consulted
scheduleTasks_IgnoresCondition(w, placeholders, pass) ==
    [w EXCEPT !.taskMap =
        [t \in TaskIDs |->
            IF t \in getTasks(w.taskMap, "New") /\ t \in pass
            THEN [w.taskMap[t] EXCEPT !.state = "Pending"]
            ELSE w.taskMap[t]]]

\* mutant: the first sanity check that fails ends the call
scheduleTasks_StopsAtFailure(w, placeholders, pass) ==
    LET selected == {t \in getTasks(w.taskMap, "New") :
                        w.taskMap[t].placeholder = placeholders}
        before(t) == \A u \in selected : u < t => u \in pass
    IN [w EXCEPT !.taskMap =
            [t \in TaskIDs |->
                IF t \in selected /\ t \in pass /\ before(t)
                THEN [w.taskMap[t] EXCEPT !.state = "Pending"]
                ELSE w.taskMap[t]],
                 !.out.notified =
            [t \in TaskIDs |->
                IF t \in selected /\ t \notin pass /\ before(t) THEN @[t] + 1 ELSE @[t]]]

\* Application.scheduleTasks: the New tasks the condition selects get InitTask
\* (New -> Pending) when their sanity check passes, and a warning event of
\* the recorder when it fails; pass is the set of tasks whose check passes
scheduleTasks(w, placeholders, pass) ==
    LET selected == {t \in getTasks(w.taskMap, "New") :
                        w.taskMap[t].placeholder = placeholders}
    IN [w EXCEPT !.taskMap =
            [t \in TaskIDs |->
                IF t \in selected /\ t \in pass
                THEN [w.taskMap[t] EXCEPT !.state = "Pending"]
                ELSE w.taskMap[t]],
                 !.out.notified =
            [t \in TaskIDs |->
                IF t \in selected /\ t \notin pass THEN @[t] + 1 ELSE @[t]]]

\* mutant: a task added again replaces the one held
addTask_Overwrites(tm, t, task) == [tm EXCEPT ![t] = task]

\* Application.addTask: a task whose identifier is in the map is skipped
addTask(tm, t, task) == IF tm[t] # NoTask THEN tm ELSE [tm EXCEPT ![t] = task]

\* mutant: removing an absent task reports no error
removeTask_NoError(tm, t) == [taskMap |-> [tm EXCEPT ![t] = NoTask], err |-> "nil"]

\* Application.removeTask: the entry is deleted, or the task is reported as
\* not found
removeTask(tm, t) ==
    IF tm[t] # NoTask
    THEN [taskMap |-> [tm EXCEPT ![t] = NoTask], err |-> "nil"]
    ELSE [taskMap |-> tm, err |-> "not found"]

\* Application.GetTask: the task of the map, or an error
GetTask(tm, t) ==
    IF tm[t] # NoTask
    THEN [task |-> tm[t], err |-> "nil"]
    ELSE [task |-> NoTask, err |-> "doesn't exist"]

\* Task.alias: the namespace and the name of the task's pod; the pods of
\* TestGetNonTerminatedTaskAlias have no namespace
Alias(t) == <<"", t>>

\* Task.isTerminated()
isTerminated(task) == task.state \in TerminatedTaskStates

\* mutant: the alias of every task of the map is returned
getNonTerminatedTaskAlias_All(tm) == {Alias(t) : t \in {u \in TaskIDs : tm[u] # NoTask}}

\* Application.getNonTerminatedTaskAlias: the aliases of the tasks of the map
\* that are not terminated
getNonTerminatedTaskAlias(tm) ==
    {Alias(t) : t \in {u \in TaskIDs : tm[u] # NoTask /\ ~isTerminated(tm[u])}}

\* ---------------------------------------------------------------- state
\* the application and its collaborators, as the callbacks see them
World ==
    [state |-> state, taskGroups |-> taskGroups, taskMap |-> taskMap,
     queue |-> queue, api |-> api, pm |-> pm, out |-> NoOut,
     placeholderAsk |-> placeholderAsk,
     placeholderTimeoutInSec |-> placeholderTimeoutInSec]

\* the answers of SchedulerAPI.Update, for the events whose callback calls it
UpdateResults(e) ==
    IF e \in {SubmitApplication, RecoverApplication} THEN {"ok", "err"} ELSE {"ok"}

\* what an event carries to its callback when the sender built it as the
\* callback expects: the answer of Update, a parsed error message for Fail, a
\* task identifier (and a termination type) for ReleaseAppAllocationAsk, an
\* allocation identifier (and a termination type) for ReleaseAppAllocation
Inputs(e) ==
    CASE e \in {SubmitApplication, RecoverApplication} -> UpdateResults(e)
      [] e = FailApplication -> {[ok |-> TRUE]}
      [] e = ReleaseAppAllocationAsk -> {[ok |-> TRUE, taskID |-> t] : t \in Joining}
      [] e = ReleaseAppAllocation ->
            {[ok |-> TRUE, allocationUUID |-> u] : u \in AllocationUUIDs}
      [] OTHER -> {"ok"}

\* the same, and the arguments that fail the callback's type assertions
DirectInputs(e) ==
    CASE e = FailApplication -> Inputs(e) \cup {[ok |-> FALSE]}
      [] e = ReleaseAppAllocationAsk -> Inputs(e) \cup {[ok |-> FALSE, taskID |-> 1]}
      [] e = ReleaseAppAllocation ->
            Inputs(e) \cup {[ok |-> FALSE, allocationUUID |-> "uuid1"]}
      [] OTHER -> Inputs(e)

\* NewApplication: state New, no task, no task group; nothing dispatched
Init ==
    /\ state = "New"
    /\ taskGroups = <<>>
    /\ taskMap = [t \in TaskIDs |-> NoTask]
    /\ queue = <<>>
    /\ api = [updates |-> 0, ok |-> FALSE]
    /\ pm = [creating |-> "idle", createCalls |-> 0, requested |-> 0, cleanUps |-> 0]
    /\ ret = NoRet
    /\ sched = "idle"
    /\ hist = [first |-> "none", runDecided |-> FALSE]
    /\ out = NoOut
    /\ placeholderAsk = NoResource
    /\ threads = [i \in Threads |-> Idle]
    /\ placeholderTimeoutInSec = 0

\* the variables after handle(e) returned res, called on w. The error goes
\* to a caller that called handle itself; the dispatcher's handler and
\* Schedule() only log it. What the callbacks did to the collaborators is
\* recorded for the same calls.
Handled(w, e, direct, res) ==
    /\ Len(res.w.queue) <= MaxQueue
    /\ state' = res.w.state
    /\ taskGroups' = res.w.taskGroups
    /\ taskMap' = res.w.taskMap
    /\ queue' = res.w.queue
    /\ api' = res.w.api
    /\ pm' = res.w.pm
    /\ ret' = IF direct THEN [ev |-> e, err |-> res.err] ELSE NoRet
    /\ out' = IF direct THEN res.w.out ELSE NoOut
    /\ UNCHANGED <<hist, placeholderAsk, threads, placeholderTimeoutInSec>>

\* ------------------------------------------------------------- actions
\* The dispatcher's consumer takes the oldest event and calls handle with it.
Deliver ==
    /\ queue # <<>>
    /\ LET w == [World EXCEPT !.queue = Tail(queue)]
           e == Head(queue)
       IN \E r \in Inputs(e.ev) : Handled(w, e.ev, FALSE, handle(w, e.ev, r))
    /\ UNCHANGED sched

\* The same delivery, with what handle returned and what the callback did to
\* the tasks recorded.
DeliverRecorded ==
    /\ queue # <<>>
    /\ LET w == [World EXCEPT !.queue = Tail(queue)]
           e == Head(queue)
       IN \E r \in Inputs(e.ev) :
            LET res == handle(w, e.ev, r)
            IN /\ Len(res.w.queue) <= MaxQueue
               /\ state' = res.w.state
               /\ taskGroups' = res.w.taskGroups
               /\ taskMap' = res.w.taskMap
               /\ queue' = res.w.queue
               /\ api' = res.w.api
               /\ pm' = res.w.pm
               /\ ret' = [ev |-> e.ev, err |-> res.err]
               /\ out' = [res.w.out EXCEPT !.op = "deliver"]
    /\ UNCHANGED <<sched, hist, placeholderAsk, threads, placeholderTimeoutInSec>>

\* the events other components dispatch for the application: the scheduler
\* core's answers, placeholder binding changes, releases, completion, kill
ExternalEvents ==
    {AcceptApplication, RejectApplication, UpdateReservation, ReleaseAppAllocation,
     ReleaseAppAllocationAsk, CompleteApplication, FailApplication,
     KillApplication, KilledApplication}

\* The dispatcher delivers an event another component dispatched. The
\* scheduler core answers (Accept, Reject) only a submission it received.
External(e) ==
    /\ e \in {AcceptApplication, RejectApplication} => api.ok
    /\ \E r \in Inputs(e) : Handled(World, e, FALSE, handle(World, e, r))
    /\ UNCHANGED sched

\* mutant: the recovery trigger drops the error of handle
TriggerAppRecovery_DropsError ==
    /\ \E r \in UpdateResults(RecoverApplication) :
          Handled(World, RecoverApplication, TRUE,
                  handle_SwallowsErrors(World, RecoverApplication, r))
    /\ UNCHANGED sched

\* Application.TriggerAppRecovery
TriggerAppRecovery ==
    /\ \E r \in UpdateResults(RecoverApplication) :
          Handled(World, RecoverApplication, TRUE, handle(World, RecoverApplication, r))
    /\ UNCHANGED sched

\* Application.Schedule, the switch on GetApplicationState(): the state is
\* read without the application's lock, the branch runs afterwards
\* mutant: Submitted takes the branch of New
ScheduleRead_SubmittedAsNew ==
    /\ sched = "idle"
    /\ sched' = IF state \in {"New", "Accepted", "Reserving", "Running"} THEN state
                ELSE IF state = "Submitted" THEN "New" ELSE "idle"
    /\ ret' = NoRet
    /\ out' = NoOut
    /\ UNCHANGED <<state, taskGroups, taskMap, queue, api, pm, hist, placeholderAsk, threads, placeholderTimeoutInSec>>

ScheduleRead ==
    /\ sched = "idle"
    /\ sched' = IF state \in {"New", "Accepted", "Reserving", "Running"} THEN state ELSE "idle"
    /\ ret' = NoRet
    /\ out' = NoOut
    /\ UNCHANGED <<state, taskGroups, taskMap, queue, api, pm, hist, placeholderAsk, threads, placeholderTimeoutInSec>>

\* case states.New: handle(SubmitApplication)
ScheduleNew ==
    /\ sched = "New"
    /\ \E r \in UpdateResults(SubmitApplication) :
          Handled(World, SubmitApplication, FALSE, handle(World, SubmitApplication, r))
    /\ sched' = "idle"

\* case states.Accepted: postAppAccepted
ScheduleAccepted ==
    /\ sched = "Accepted"
    /\ LET n == postAppAccepted(World)
           gang == GangCondition(taskGroups, taskMap)
       IN /\ Len(n.queue) <= MaxQueue
          /\ queue' = n.queue
          /\ hist' = [hist EXCEPT
                        !.first = IF @ = "none" THEN (IF gang THEN "reserve" ELSE "run") ELSE @,
                        !.runDecided = @ \/ (~gang /\ state = "Accepted")]
    /\ sched' = "idle"
    /\ ret' = NoRet
    /\ out' = NoOut
    /\ UNCHANGED <<state, taskGroups, taskMap, api, pm, placeholderAsk, threads, placeholderTimeoutInSec>>

\* case states.Reserving / states.Running: scheduleTasks with the class filter
ScheduleTasks ==
    /\ sched \in {"Reserving", "Running"}
    /\ \E pass \in SUBSET getTasks(taskMap, "New") :
          taskMap' = scheduleTasks(World, sched = "Reserving", pass).taskMap
    /\ sched' = "idle"
    /\ ret' = NoRet
    /\ out' = NoOut
    /\ UNCHANGED <<state, taskGroups, queue, api, pm, hist, placeholderAsk, threads, placeholderTimeoutInSec>>

\* the same branch of Schedule(), the warning events of the call recorded
CallScheduleTasks(pass) ==
    /\ sched \in {"Reserving", "Running"}
    /\ taskMap' = scheduleTasks(World, sched = "Reserving", pass).taskMap
    /\ out' = [scheduleTasks(World, sched = "Reserving", pass).out
                    EXCEPT !.op = "scheduleTasks"]
    /\ sched' = "idle"
    /\ ret' = NoRet
    /\ UNCHANGED <<state, taskGroups, queue, api, pm, hist, placeholderAsk, threads, placeholderTimeoutInSec>>

\* Application.setTaskGroups. The task groups come with the application's
\* request: they are set before the application is submitted.
SetTaskGroups(tgs) ==
    /\ state = "New"
    /\ placeholderAsk.cpu < MaxAskCPU
    /\ taskGroups' = setTaskGroups(placeholderAsk, tgs).taskGroups
    /\ placeholderAsk' = setTaskGroups(placeholderAsk, tgs).placeholderAsk
    /\ ret' = NoRet
    /\ out' = NoOut
    /\ UNCHANGED <<state, taskMap, queue, api, pm, sched, hist, threads, placeholderTimeoutInSec>>

\* the timeouts SetPlaceholderTimeout is called with, in seconds
Timeouts == {0, 15, 60}

\* Application.SetPlaceholderTimeout
SetPlaceholderTimeout(timeout) ==
    /\ placeholderTimeoutInSec' = timeout
    /\ ret' = NoRet
    /\ out' = NoOut
    /\ UNCHANGED <<state, taskGroups, taskMap, queue, api, pm, sched, hist,
                   placeholderAsk, threads>>

\* the task groups an application gets once, with its request
SetTaskGroupsOnce(tgs) == taskGroups = <<>> /\ SetTaskGroups(tgs)

\* Application.addTask: a task already present is kept. A task joins as New,
\* or as Allocated when it is recovered after a restart. The identifiers
\* number the tasks in the order they join.
AddTask(t, task) ==
    /\ IF t = 1 THEN TRUE ELSE taskMap[t - 1] # NoTask
    /\ taskMap' = addTask(taskMap, t, task)
    /\ ret' = NoRet
    /\ out' = NoOut
    /\ UNCHANGED <<state, taskGroups, queue, api, pm, sched, hist, placeholderAsk, threads, placeholderTimeoutInSec>>

\* a call of Application.addTask with any task, the identifier and the task
\* handed over recorded
CallAddTask(t, task) ==
    /\ taskMap' = addTask(taskMap, t, task)
    /\ out' = [NoOut EXCEPT !.op = "addTask", !.id = t, !.task = task]
    /\ ret' = NoRet
    /\ UNCHANGED <<state, taskGroups, queue, api, pm, sched, hist, placeholderAsk, threads, placeholderTimeoutInSec>>

\* a call of Application.removeTask
RemoveTask(t) ==
    /\ taskMap' = removeTask(taskMap, t).taskMap
    /\ out' = [NoOut EXCEPT !.op = "removeTask", !.id = t,
                            !.err = removeTask(taskMap, t).err]
    /\ ret' = NoRet
    /\ UNCHANGED <<state, taskGroups, queue, api, pm, sched, hist, placeholderAsk, threads, placeholderTimeoutInSec>>

\* a call of Application.GetTask
CallGetTask(t) ==
    /\ out' = [NoOut EXCEPT !.op = "GetTask", !.id = t, !.err = GetTask(taskMap, t).err,
                            !.task = GetTask(taskMap, t).task]
    /\ ret' = NoRet
    /\ UNCHANGED <<state, taskGroups, taskMap, queue, api, pm, sched, hist,
                   placeholderAsk, threads, placeholderTimeoutInSec>>

\* a task put into the map as the tests do
PutTask(t, task) ==
    /\ taskMap[t] = NoTask
    /\ taskMap' = [taskMap EXCEPT ![t] = task]
    /\ ret' = NoRet
    /\ out' = NoOut
    /\ UNCHANGED <<state, taskGroups, queue, api, pm, sched, hist, placeholderAsk, threads, placeholderTimeoutInSec>>

\* the state of a task of the map set as the tests do
SetTaskState(t, st) ==
    /\ taskMap[t] # NoTask
    /\ taskMap[t].state # st
    /\ taskMap' = [taskMap EXCEPT ![t].state = st]
    /\ ret' = NoRet
    /\ out' = NoOut
    /\ UNCHANGED <<state, taskGroups, queue, api, pm, sched, hist, placeholderAsk, threads, placeholderTimeoutInSec>>

\* a call of Application.getNonTerminatedTaskAlias
CallGetNonTerminatedTaskAlias ==
    /\ out' = [NoOut EXCEPT !.op = "getNonTerminatedTaskAlias",
                            !.aliases = getNonTerminatedTaskAlias(taskMap)]
    /\ ret' = NoRet
    /\ UNCHANGED <<state, taskGroups, taskMap, queue, api, pm, sched, hist,
                   placeholderAsk, threads, placeholderTimeoutInSec>>

\* the task's own state machine moves it on after InitTask
TaskNext(st) ==
    CASE st = "Pending" -> "Allocated"
      [] st = "Allocated" -> "Bound"
      [] OTHER -> st

TaskAdvance(t) ==
    /\ taskMap[t] # NoTask
    /\ TaskNext(taskMap[t].state) # taskMap[t].state
    /\ taskMap' = [taskMap EXCEPT ![t].state = TaskNext(@)]
    /\ ret' = NoRet
    /\ out' = NoOut
    /\ UNCHANGED <<state, taskGroups, queue, api, pm, sched, hist, placeholderAsk, threads, placeholderTimeoutInSec>>

\* the goroutine of onReserving: createAppPlaceholders returned nil, having
\* asked for one placeholder per member of every task group
CreateOK ==
    /\ pm.creating = "running"
    /\ pm' = [pm EXCEPT !.creating = "done", !.requested = @ + SumMinMember(taskGroups)]
    /\ ret' = NoRet
    /\ out' = NoOut
    /\ UNCHANGED <<state, taskGroups, taskMap, queue, api, sched, hist, placeholderAsk, threads, placeholderTimeoutInSec>>

\* mutant: the failure is cleaned up but no Run is dispatched
onReservingFailed_NoRun(w) ==
    [w EXCEPT !.pm.creating = "failed", !.pm.cleanUps = @ + 1]

\* the goroutine of onReserving, createAppPlaceholders returned an error:
\* cleanUp(app), then Dispatch(RunApplication)
onReservingFailed(w) ==
    [w EXCEPT !.pm.creating = "failed", !.pm.cleanUps = @ + 1,
              !.queue = Dispatch(@, Event(RunApplication, "createFailed"))]

CreateFailed ==
    /\ pm.creating = "running"
    /\ LET n == onReservingFailed(World)
       IN /\ Len(n.queue) <= MaxQueue
          /\ pm' = n.pm
          /\ queue' = n.queue
    /\ ret' = NoRet
    /\ out' = NoOut
    /\ UNCHANGED <<state, taskGroups, taskMap, api, sched, hist, placeholderAsk, threads, placeholderTimeoutInSec>>

\* The lifecycle of one application: the dispatcher, the events of the other
\* components, the recovery trigger, Schedule() and placeholder creation,
\* with tasks that join once each and move on.
Next ==
    \/ Deliver
    \/ \E e \in ExternalEvents : External(e)
    \/ TriggerAppRecovery
    \/ ScheduleRead
    \/ ScheduleNew
    \/ ScheduleAccepted
    \/ ScheduleTasks
    \/ \E tgs \in TaskGroupLists : SetTaskGroupsOnce(tgs)
    \/ \E t \in {u \in Joining : taskMap[u] = NoTask}, st \in {"New", "Allocated"},
          ph \in BOOLEAN : AddTask(t, Task(st, ph))
    \/ \E t \in Joining : TaskAdvance(t)
    \/ CreateOK
    \/ CreateFailed

Spec == Init /\ [][Next]_vars

\* An application before any task has joined it, with the dispatcher's
\* consumer taking events for as long as there are any.
NextNoTask ==
    \/ Deliver
    \/ \E e \in ExternalEvents : External(e)
    \/ TriggerAppRecovery
    \/ ScheduleRead
    \/ ScheduleNew
    \/ ScheduleAccepted
    \/ ScheduleTasks
    \/ \E tgs \in TaskGroupLists : SetTaskGroupsOnce(tgs)
    \/ CreateOK
    \/ CreateFailed

FairSpec == Init /\ [][NextNoTask]_vars /\ WF_vars(Deliver)

\* A direct call of handle with any event, in any state, as the tests make it.
HandleWith(e, r) ==
    /\ Handled(World, e, TRUE, handle(World, e, r))
    /\ UNCHANGED sched

HandleDirect(e) == \E r \in DirectInputs(e) : HandleWith(e, r)

\* Any sequence of handle and Schedule calls on an application that has its
\* task groups and no task yet: what handle returns and the state it leaves
\* depend on the state and the event alone.
NextHandle ==
    \/ \E e \in Events : HandleDirect(e)
    \/ Deliver
    \/ ScheduleRead
    \/ ScheduleNew
    \/ ScheduleAccepted
    \/ ScheduleTasks
    \/ \E tgs \in TaskGroupLists : SetTaskGroupsOnce(tgs)
    \/ CreateOK
    \/ CreateFailed

SpecHandle == Init /\ [][NextHandle]_vars

\* the events of Fail and ReleaseAppAllocationAsk, whose callbacks walk the
\* task map, and the events that take a new application to every state the
\* two are legal in
TaskEvents ==
    {SubmitApplication, AcceptApplication, RejectApplication, TryReserve,
     RunApplication, FailApplication, ReleaseAppAllocationAsk}

\* The task map under addTask, removeTask and GetTask, with tasks in any
\* state, and the callbacks that walk it, called through handle.
NextTasks ==
    \/ \E e \in TaskEvents : HandleDirect(e)
    \/ Deliver
    \/ \E t \in Joining, st \in TaskStates, ph \in BOOLEAN : CallAddTask(t, Task(st, ph))
    \/ \E t \in Joining : RemoveTask(t)
    \/ \E t \in Joining : CallGetTask(t)

SpecTasks == Init /\ [][NextTasks]_vars

\* An application that gets its task groups and its placeholder timeout and
\* is then submitted or recovered.
NextSubmit ==
    \/ \E tgs \in TaskGroupLists : SetTaskGroupsOnce(tgs)
    \/ \E timeout \in Timeouts : SetPlaceholderTimeout(timeout)
    \/ \E e \in {SubmitApplication, RecoverApplication} : HandleDirect(e)
    \/ Deliver

SpecSubmit == Init /\ [][NextSubmit]_vars

\* The task map of an application that is not scheduled, with tasks coming,
\* changing state and going, and the query for the aliases.
NextMap ==
    \/ \E t \in TaskIDs, st \in AllTaskStates : PutTask(t, Task(st, FALSE))
    \/ \E t \in TaskIDs, st \in AllTaskStates : SetTaskState(t, st)
    \/ \E t \in TaskIDs : RemoveTask(t)
    \/ CallGetNonTerminatedTaskAlias

SpecMap == Init /\ [][NextMap]_vars

\* the events that release what a task holds and Fail, and the events that
\* take a new application to the states they are legal in
ReleaseEvents ==
    {SubmitApplication, AcceptApplication, RunApplication, FailApplication,
     ReleaseAppAllocation, ReleaseAppAllocationAsk}

\* the tasks of an application that is released: new ones without an
\* allocation and allocated ones, placeholders or not
ReleaseTasks ==
    {Task("New", ph) : ph \in BOOLEAN}
        \cup {Allocated("Allocated", ph, u) : ph \in BOOLEAN, u \in AllocationUUIDs}

\* An application with tasks, some of them holding an allocation, that is
\* taken to Running or Failed and handles the release events and Fail, with
\* arguments that parse and arguments that do not.
NextRelease ==
    \/ \E t \in TaskIDs, task \in ReleaseTasks : PutTask(t, task)
    \/ \E e \in ReleaseEvents : HandleDirect(e)
    \/ Deliver

SpecRelease == Init /\ [][NextRelease]_vars

\* the events that take a new application to Reserving and to Running
ScheduleEvents == {SubmitApplication, AcceptApplication, TryReserve, RunApplication}

\* An application with new and pending tasks, placeholders or not, that is
\* taken to Reserving and Running while Schedule() is called on it.
NextSchedule ==
    \/ \E t \in TaskIDs, st \in {"New", "Pending"}, ph \in BOOLEAN : PutTask(t, Task(st, ph))
    \/ \E e \in ScheduleEvents : HandleDirect(e)
    \/ Deliver
    \/ ScheduleRead
    \/ ScheduleNew
    \/ ScheduleAccepted
    \/ \E pass \in SUBSET getTasks(taskMap, "New") : CallScheduleTasks(pass)

SpecSchedule == Init /\ [][NextSchedule]_vars

\* An application with tasks that is submitted and then rejected by the
\* scheduler core, or failed by another component, while the dispatcher
\* delivers what the callbacks dispatch; the dispatcher keeps delivering.
NextReject ==
    \/ \E t \in TaskIDs, st \in {"New", "Pending", "Allocated"} : PutTask(t, Task(st, FALSE))
    \/ HandleDirect(SubmitApplication)
    \/ api.ok /\ HandleDirect(RejectApplication)
    \/ HandleDirect(FailApplication)
    \/ DeliverRecorded

SpecReject == Init /\ [][NextReject]_vars /\ WF_vars(DeliverRecorded)

\* setTaskGroups called again and again on a new application
NextAsk == \E tgs \in TaskGroupLists : SetTaskGroups(tgs)

SpecAsk == Init /\ [][NextAsk]_vars

\* ------------------------------------------------------------- locking
\* the mutable fields of Application
Fields ==
    {"state", "taskMap", "taskGroups", "placeholderAsk", "schedulingPolicy",
     "placeholderOwnerReferences", "placeholderTimeoutInSec"}

\* The methods of Application that touch a mutable field: the mode in which
\* the method takes app.lock ("Lock", "RLock", or "none" when it takes no
\* lock), the fields it reads and the fields it writes while it runs. handle
\* runs the callbacks, which read the task map, the task groups, the ask and
\* the timeout. GetTasks stands for GetNewTasks, GetPendingTasks and
\* GetAllocatedTasks, which Schedule() calls through scheduleTasks.
LockTable ==
    [handle |-> [lock |-> "Lock", writes |-> {"state"},
                 reads |-> {"state", "taskMap", "taskGroups", "placeholderAsk",
                            "placeholderTimeoutInSec"}],
     canHandle |-> [lock |-> "RLock", writes |-> {}, reads |-> {"state"}],
     GetTask |-> [lock |-> "RLock", writes |-> {}, reads |-> {"taskMap"}],
     setSchedulingPolicy |-> [lock |-> "Lock", writes |-> {"schedulingPolicy"}, reads |-> {}],
     getSchedulingPolicy |-> [lock |-> "RLock", writes |-> {}, reads |-> {"schedulingPolicy"}],
     setTaskGroups |-> [lock |-> "Lock", writes |-> {"taskGroups", "placeholderAsk"},
                        reads |-> {"placeholderAsk"}],
     getPlaceholderAsk |-> [lock |-> "RLock", writes |-> {}, reads |-> {"placeholderAsk"}],
     getTaskGroups |-> [lock |-> "RLock", writes |-> {}, reads |-> {"taskGroups"}],
     setOwnReferences |-> [lock |-> "RLock", writes |-> {"placeholderOwnerReferences"},
                           reads |-> {}],
     addTask |-> [lock |-> "Lock", writes |-> {"taskMap"}, reads |-> {"taskMap"}],
     removeTask |-> [lock |-> "Lock", writes |-> {"taskMap"}, reads |-> {"taskMap"}],
     GetApplicationState |-> [lock |-> "none", writes |-> {}, reads |-> {"state"}],
     GetTasks |-> [lock |-> "RLock", writes |-> {}, reads |-> {"taskMap"}],
     SetPlaceholderTimeout |-> [lock |-> "Lock", writes |-> {"placeholderTimeoutInSec"},
                                reads |-> {}],
     postAppAccepted |-> [lock |-> "none", writes |-> {},
                          reads |-> {"taskGroups", "taskMap"}]]

Methods == DOMAIN LockTable

\* app.sm: fsm.FSM serialises the accesses to its current state with a mutex
\* of its own
GuardedBySM == {"state"}

\* the mode in which goroutine i holds app.lock
heldLock(i) == IF threads[i].pc # "idle" THEN LockTable[threads[i].op].lock ELSE "none"

\* sync.RWMutex: Lock waits until nobody holds the lock, RLock until nobody
\* holds it exclusively; the method runs with the lock taken
Enter(i, m) ==
    /\ threads[i] = Idle
    /\ LockTable[m].lock = "Lock" => \A j \in Threads \ {i} : heldLock(j) = "none"
    /\ LockTable[m].lock = "RLock" => \A j \in Threads \ {i} : heldLock(j) # "Lock"
    /\ threads' = [threads EXCEPT ![i] = [op |-> m, pc |-> "in", call |-> NoCall]]
    /\ UNCHANGED <<state, taskGroups, taskMap, queue, api, pm, ret, sched, hist, out,
                   placeholderAsk, placeholderTimeoutInSec>>

\* the method returns; the deferred Unlock / RUnlock runs
Leave(i) ==
    /\ threads[i].pc = "in"
    /\ threads' = [threads EXCEPT ![i] = Idle]
    /\ UNCHANGED <<state, taskGroups, taskMap, queue, api, pm, ret, sched, hist, out,
                   placeholderAsk, placeholderTimeoutInSec>>

\* a call made by a callback: the callback, what it calls, the mode in which
\* the callee takes app.lock, whether the callee does external I/O, and
\* whether the call is a go statement
CallOf(cb, callee, lock, io, go) ==
    [callback |-> cb, callee |-> callee, lock |-> lock, io |-> io, go |-> go]

\* mutant: the Fail callback lists the tasks with the accessors that lock
OwnCalls_LockedAccessors ==
    {CallOf("handleSubmitApplicationEvent", "String", "none", FALSE, FALSE),
     CallOf("handleRecoverApplicationEvent", "String", "none", FALSE, FALSE),
     CallOf("onReservationStateChange", "getTasks", "none", FALSE, FALSE),
     CallOf("handleFailApplicationEvent", "GetNewTasks", "RLock", FALSE, FALSE)}

\* the calls the callbacks make to methods of the application: String, which
\* calls GetApplicationState, and getTasks; none of them takes app.lock
OwnCalls ==
    {CallOf("handleSubmitApplicationEvent", "String", "none", FALSE, FALSE),
     CallOf("handleRecoverApplicationEvent", "String", "none", FALSE, FALSE),
     CallOf("onReservationStateChange", "getTasks", "none", FALSE, FALSE),
     CallOf("handleFailApplicationEvent", "getTasks", "none", FALSE, FALSE)}

\* the calls the callbacks make to the collaborators: the scheduler API and
\* the pod deletion are called in the callback, placeholder creation and
\* cleanup in a goroutine of their own; the dispatcher and the event recorder
\* queue what they are given
CollaboratorCalls ==
    {CallOf("handleSubmitApplicationEvent", "schedulerAPI.Update", "none", TRUE, FALSE),
     CallOf("handleSubmitApplicationEvent", "dispatcher.Dispatch", "none", FALSE, FALSE),
     CallOf("handleRecoverApplicationEvent", "schedulerAPI.Update", "none", TRUE, FALSE),
     CallOf("handleRecoverApplicationEvent", "dispatcher.Dispatch", "none", FALSE, FALSE),
     CallOf("handleRejectApplicationEvent", "dispatcher.Dispatch", "none", FALSE, FALSE),
     CallOf("handleCompleteApplicationEvent", "cleanUp", "none", TRUE, TRUE),
     CallOf("handleFailApplicationEvent", "cleanUp", "none", TRUE, TRUE),
     CallOf("handleFailApplicationEvent", "recorder.Eventf", "none", FALSE, FALSE),
     CallOf("onReservationStateChange", "dispatcher.Dispatch", "none", FALSE, FALSE),
     CallOf("onReserving", "createAppPlaceholders", "none", TRUE, TRUE),
     CallOf("handleReleaseAppAllocationEvent", "task.DeleteTaskPod", "none", TRUE, FALSE),
     CallOf("handleReleaseAppAllocationAskEvent", "task.DeleteTaskPod", "none", TRUE, FALSE)}

CallbackCalls == OwnCalls \cup CollaboratorCalls

\* a callback run by handle makes one of its calls: a callee that takes no
\* lock runs; one that takes app.lock waits for the lock handle holds, since
\* sync.RWMutex is not reentrant
Call(i, c) ==
    /\ threads[i].op = "handle"
    /\ threads[i].pc = "in"
    /\ threads' = [threads EXCEPT ![i].call = c,
                                  ![i].pc = IF c.lock = "none" THEN "calling" ELSE "blocked"]
    /\ UNCHANGED <<state, taskGroups, taskMap, queue, api, pm, ret, sched, hist, out,
                   placeholderAsk, placeholderTimeoutInSec>>

\* the callee returns to the callback; a go statement returns at once
Return(i) ==
    /\ threads[i].pc = "calling"
    /\ threads' = [threads EXCEPT ![i].call = NoCall, ![i].pc = "in"]
    /\ UNCHANGED <<state, taskGroups, taskMap, queue, api, pm, ret, sched, hist, out,
                   placeholderAsk, placeholderTimeoutInSec>>

\* goroutines calling the methods of one application at the same time
NextLock ==
    \/ \E i \in Threads, m \in Methods : Enter(i, m)
    \/ \E i \in Threads : Leave(i)
    \/ \E i \in Threads, c \in CallbackCalls : Call(i, c)
    \/ \E i \in Threads : Return(i)

SpecLock == Init /\ [][NextLock]_vars

\* ================================================================ claims
\* The transition table as the specification declares it (section 4.2):
\* event, legal source states, destination.
DeclaredRows ==
    { <<SubmitApplication, {"New"}, "Submitted">>,
      <<RecoverApplication, {"New"}, "Recovering">>,
      <<AcceptApplication, {"Submitted", "Recovering"}, "Accepted">>,
      <<TryReserve, {"Accepted"}, "Reserving">>,
      <<UpdateReservation, {"Reserving"}, "Reserving">>,
      <<RunApplication, {"Accepted", "Reserving", "Running"}, "Running">>,
      <<ReleaseAppAllocation, {"Running"}, "Running">>,
      <<ReleaseAppAllocation, {"Failed"}, "Failed">>,
      <<ReleaseAppAllocationAsk, {"Running", "Accepted", "Reserving"}, "Running">>,
      <<ReleaseAppAllocationAsk, {"Failed"}, "Failed">>,
      <<CompleteApplication, {"Running"}, "Completed">>,
      <<RejectApplication, {"Submitted"}, "Rejected">>,
      <<FailApplication, {"Submitted", "Rejected", "Accepted", "Running", "Reserving"}, "Failed">>,
      <<KillApplication, {"Accepted", "Running", "Reserving"}, "Killing">>,
      <<KilledApplication, {"Killing"}, "Killed">> }

\* the declared rows of event e that start in state s
RowsFrom(e, s) == {row \in DeclaredRows : row[1] = e /\ s \in row[2]}

\* C1: handle(event), called in a source state of a declared row of the event,
\* leaves the application in the row's destination and returns no error; and
\* whatever is called, the state changes only along a declared row.
C1_TableRowsTaken ==
    [][ /\ \A e \in Events :
             (ret'.ev = e /\ HandleDirect(e)) =>
                \A row \in RowsFrom(e, state) : state' = row[3] /\ ret'.err = "nil"
        /\ state' # state =>
             \E row \in DeclaredRows : state \in row[2] /\ state' = row[3] ]_vars

\* C1 witness: a direct call has just taken the row Killing -> Killed
C1_Witness == state = "Killed" /\ ret = [ev |-> KilledApplication, err |-> "nil"]

\* C2: handle(event) for a (state, event) pair with no declared row returns an
\* error and leaves the state unchanged; so do Submit in Submitted, Run in New
\* or Submitted, and Fail in New.
C2_IllegalPairRefused ==
    [][ \A e \in Events :
            (ret'.ev = e /\ RowsFrom(e, state) = {} /\ HandleDirect(e)) =>
                (ret'.err # "nil" /\ state' = state) ]_vars

\* C2 witness: Submit has just been refused on a Submitted application
C2_Witness ==
    state = "Submitted" /\ ret = [ev |-> SubmitApplication, err |-> "inappropriate"]

\* the events with a declared row that stays in its state
SameStateEvents == {row[1] : row \in {x \in DeclaredRows : x[3] \in x[2]}}

\* the destinations the declared rows give event e
DestinationsOf(e) == {row[3] : row \in {x \in DeclaredRows : x[1] = e}}

\* C3 as claimed: when handle(e) has just succeeded, handling e again returns
\* no error and leaves the state unchanged, for every event e.
C3_Original ==
    [][ \A e \in Events :
            (ret = [ev |-> e, err |-> "nil"] /\ HandleDirect(e)) =>
                (ret'.err = "nil" /\ state' = state) ]_vars

\* C3 amended: when handle(e) has just succeeded and the application is where
\* e left it, handling e again leaves the state unchanged; it returns no error
\* exactly for the events with a row that stays in its state (Run,
\* UpdateReservation, ReleaseAllocation, ReleaseAllocationAsk) and an error
\* for every other event.
C3_RepeatedEvent ==
    [][ \A e \in Events :
            (/\ ret = [ev |-> e, err |-> "nil"]
             /\ state \in DestinationsOf(e)
             /\ HandleDirect(e)) =>
                (state' = state /\ (ret'.err = "nil" <=> e \in SameStateEvents)) ]_vars

\* C3 witness: a second Accept has just been refused on an Accepted application
C3_Witness ==
    state = "Accepted" /\ ret = [ev |-> AcceptApplication, err |-> "inappropriate"]

\* C9 as claimed: once the state is Completed, Rejected, Failed or Killed no
\* call changes it again.
C9_Original ==
    [][ (state \in {"Completed", "Rejected", "Failed", "Killed"}) => (state' = state) ]_vars

\* C9 amended: once the state is Completed, Failed or Killed no handle or
\* Schedule call changes it again; a Rejected application changes state only
\* to Failed.
C9_TerminalInert ==
    [][ /\ state \in {"Completed", "Failed", "Killed"} => state' = state
        /\ state = "Rejected" => state' \in {"Rejected", "Failed"} ]_vars

\* C9 witness: Run has just been refused on a Killed application
C9_Witness ==
    state = "Killed" /\ ret = [ev |-> RunApplication, err |-> "inappropriate"]

\* Schedule() has just sent InitTask to task t
Advanced(t) == taskMap[t].state = "New" /\ taskMap'[t].state = "Pending"

\* the states an application is in once it has reached Running
ReachedRunning == {"Running", "Completed", "Failed", "Killing", "Killed"}

\* C4: while the application is in Reserving, Schedule() advances only tasks
\* flagged as placeholders; it advances a task that is not a placeholder only
\* in the branch it takes for a Running application, which it enters only
\* when the application has reached Running.
C4_GangGating ==
    /\ [][ \A t \in TaskIDs :
             Advanced(t) =>
                /\ state = "Reserving" => taskMap[t].placeholder
                /\ ~taskMap[t].placeholder =>
                      (sched = "Running" /\ state \in ReachedRunning) ]_vars
    /\ [](sched = "Running" => state \in ReachedRunning)

\* C4 witness: a placeholder has been advanced while the application reserves
C4_Witness ==
    /\ state = "Reserving"
    /\ \E t \in TaskIDs :
          taskMap[t] # NoTask /\ taskMap[t].placeholder /\ taskMap[t].state = "Pending"

\* the dispatcher's consumer takes a Run event dispatched by o
RunDelivered(o) ==
    /\ queue # <<>>
    /\ Head(queue) = Event(RunApplication, o)
    /\ queue' = Tail(queue)

\* how often event ev waits in queue q
CountIn(q, ev) == Cardinality({i \in DOMAIN q : q[i] = ev})

\* this step dispatches event ev
Dispatched(ev) == CountIn(queue', ev) > CountIn(queue, ev)

\* every task group has as many Bound placeholder tasks as its minMember
Quorum ==
    \A i \in DOMAIN taskGroups :
        Cardinality({t \in TaskIDs :
            /\ taskMap[t] # NoTask
            /\ taskMap[t].state = "Bound"
            /\ taskMap[t].placeholder
            /\ taskMap[t].taskGroupName = taskGroups[i].name}) = taskGroups[i].minMember

\* C5 as claimed: an application with a task group and no Allocated task goes
\* from Accepted or Reserving to Running only by a Run that the quorum check
\* of UpdateReservation or the failure of placeholder creation dispatched.
C5_Original ==
    [][ (/\ state' = "Running"
         /\ \/ state = "Reserving"
            \/ state = "Accepted" /\ GangCondition(taskGroups, taskMap)) =>
            (\E o \in {"quorum", "createFailed"} : RunDelivered(o)) ]_vars

\* C5 amended: the application goes from Accepted or Reserving to Running only
\* when a Run event is delivered or a ReleaseAllocationAsk event is handled;
\* and Run is dispatched only by an UpdateReservation handled in Reserving
\* that found the quorum, by the failure of placeholder creation, or by a gang
\* decision that found no task group or an Allocated task.
C5_RunningOnlyAfter ==
    [][ /\ (state \in {"Accepted", "Reserving"} /\ state' = "Running") =>
              \/ \E o \in {"quorum", "createFailed", "accepted"} : RunDelivered(o)
              \/ External(ReleaseAppAllocationAsk)
        /\ Dispatched(Event(RunApplication, "quorum")) =>
              (state = "Reserving" /\ state' = "Reserving" /\ Quorum)
        /\ Dispatched(Event(RunApplication, "createFailed")) =>
              (pm.creating = "running" /\ pm'.creating = "failed")
        /\ Dispatched(Event(RunApplication, "accepted")) =>
              (sched = "Accepted" /\ ~GangCondition(taskGroups, taskMap)) ]_vars

\* C5 witness: UpdateReservation found the quorum while reserving, and its Run
\* is the next event the dispatcher delivers
C5_Witness ==
    /\ state = "Reserving"
    /\ Quorum
    /\ queue # <<>>
    /\ Head(queue) = Event(RunApplication, "quorum")

\* the dispatcher's consumer takes a TryReserve event
TryReserveDelivered ==
    /\ queue # <<>>
    /\ Head(queue).ev = TryReserve
    /\ queue' = Tail(queue)

C7_Original == hist.runDecided => (state # "Reserving" /\ pm.createCalls = 0)

\* C7 amended: a gang decision that finds no task group or an Allocated task
\* dispatches exactly one Run, and Run delivered in Accepted moves the
\* application to Running; when that decision is the application's first one,
\* the application is never in Reserving and no placeholder creation is
\* requested.
C7_NonGangPath ==
    /\ [][ /\ (sched = "Accepted" /\ sched' = "idle" /\ ~GangCondition(taskGroups, taskMap)) =>
                 queue' = Append(queue, Event(RunApplication, "accepted"))
           /\ (RunDelivered("accepted") /\ state = "Accepted") => state' = "Running" ]_vars
    /\ [](hist.first = "run" => (state # "Reserving" /\ pm.createCalls = 0))

\* C7 witness: task groups and a task recovered as Allocated; the first
\* decision chose Run and the application is Running without any reservation
C7_Witness ==
    /\ state = "Running"
    /\ hist = [first |-> "run", runDecided |-> TRUE]
    /\ Len(taskGroups) # 0
    /\ pm.createCalls = 0
    /\ queue = <<>>

\* C8: when placeholder creation fails, cleanup is requested and a Run event
\* is dispatched, and with the dispatcher delivering its events the
\* application eventually leaves Reserving.
C8_ReservationFailure ==
    /\ [][ (pm.creating = "running" /\ pm'.creating = "failed") =>
              (/\ pm'.cleanUps = pm.cleanUps + 1
               /\ queue' = Append(queue, Event(RunApplication, "createFailed"))) ]_vars
    /\ (pm.creating = "failed") ~> (state # "Reserving")

\* C8 witness: creation failed, one cleanup was requested and the Run it
\* dispatched has taken the application to Running
C8_Witness ==
    /\ state = "Running"
    /\ pm.creating = "failed"
    /\ pm.cleanUps = 1
    /\ queue = <<>>

\* the Update call of the Submit transition has just returned an error
SubmitFailed ==
    /\ state = "New"
    /\ state' = "Submitted"
    /\ api'.updates = api.updates + 1
    /\ ~api'.ok

\* C10: when the Update call of Submit returns an error the application is
\* Submitted and exactly one Fail event is dispatched; Update is never called
\* a second time; and the application eventually reaches Failed.
C10_SubmitFailure ==
    /\ [][ SubmitFailed => queue' = Append(queue, Event(FailApplication, "submit")) ]_vars
    /\ [](api.updates <= 1)
    /\ (state = "Submitted" /\ ~api.ok) ~> (state = "Failed")

\* C10 witness: the submission failed, Update was called once, and the Fail
\* event has taken the application to Failed
C10_Witness ==
    /\ state = "Failed"
    /\ api = [updates |-> 1, ok |-> FALSE]
    /\ pm.cleanUps = 1
    /\ queue = <<>>

\* C11: a Fail event with a well-formed message, handled from a state the
\* table allows it in, gives exactly one warning notification to every task of
\* the application that is New, Pending or Scheduling and none to any other
\* task; an application without such tasks gets none.
C11_FailNotifies ==
    [][(/\ ret'.ev = FailApplication
        /\ ret'.err = "nil"
        /\ HandleWith(FailApplication, [ok |-> TRUE]))
       => \A t \in TaskIDs :
            out'.notified[t] =
                IF taskMap[t].state \in {"New", "Pending", "Scheduling"} THEN 1 ELSE 0]_vars

\* a Fail was handled and the Pending task of the application was notified
C11_Witness ==
    /\ ret = [ev |-> FailApplication, err |-> "nil"]
    /\ state = "Failed"
    /\ \E t \in TaskIDs : taskMap[t].state = "Pending" /\ out.notified[t] = 1

\* C12: a ReleaseAppAllocationAsk event carrying a task identifier and a
\* termination type, handled from a state the table allows it in, asks for
\* the pod to be deleted exactly when the task is in the map and is a
\* placeholder; the termination type is recorded for every task of the map,
\* the placeholder or not.
C12_ReleaseAsk ==
    [][\A t \in TaskIDs :
        (/\ ret'.ev = ReleaseAppAllocationAsk
         /\ ret'.err = "nil"
         /\ HandleWith(ReleaseAppAllocationAsk, [ok |-> TRUE, taskID |-> t]))
        => /\ out'.deleted =
                IF taskMap[t] # NoTask /\ taskMap[t].placeholder THEN {t} ELSE {}
           /\ out'.terminated = IF taskMap[t] # NoTask THEN {t} ELSE {}]_vars

\* the ask of a task that is no placeholder was released: the termination
\* type is set and no pod is deleted
C12_Witness ==
    /\ ret = [ev |-> ReleaseAppAllocationAsk, err |-> "nil"]
    /\ \E t \in TaskIDs :
          /\ taskMap[t] # NoTask
          /\ ~taskMap[t].placeholder
          /\ out.terminated = {t}
          /\ out.deleted = {}

\* C13: TriggerAppRecovery succeeds only for an application in New, which it
\* moves to Recovering; called in any other state it returns the state
\* machine's error for the event RecoverApplication in the current state and
\* leaves the state unchanged.
C13_Recovery ==
    [][(ret'.ev = RecoverApplication /\ TriggerAppRecovery) =>
        IF state = "New"
        THEN state' = "Recovering" /\ ret' = [ev |-> RecoverApplication, err |-> "nil"]
        ELSE state' = state /\ ret' = [ev |-> RecoverApplication, err |-> "inappropriate"]]_vars

\* recovery was triggered for a submitted application and refused
C13_Witness ==
    /\ state = "Submitted"
    /\ ret = [ev |-> RecoverApplication, err |-> "inappropriate"]

\* what one task group contributes to the ask: per dimension, the amount of
\* one member in whole units, times the member count
Contribution(tg) ==
    [cpu |-> MinResource(tg.name).cpu * tg.minMember,
     memory |-> RoundUpToM(MinResource(tg.name).memory) * tg.minMember]

RECURSIVE SumOfContributions(_)
SumOfContributions(tgs) ==
    IF tgs = <<>> THEN NoResource
    ELSE ResourceAdd(Contribution(Head(tgs)), SumOfContributions(Tail(tgs)))

\* C14 as stated: after any sequence of setTaskGroups calls the placeholder
\* ask equals, per dimension, the sum of the contributions of the task groups
\* the application currently holds.
C14_Original == placeholderAsk = SumOfContributions(taskGroups)

\* C14, amended: the ask starts empty and every setTaskGroups call adds to the
\* ask held the contributions of the task groups handed over, which replace
\* the groups held; the ask equals the sum over the groups currently held
\* after the first call on a new application.
C14_AskAccumulates ==
    /\ placeholderAsk = NoResource
    /\ [][\A tgs \in TaskGroupLists :
            SetTaskGroups(tgs)
            => /\ taskGroups' = tgs
               /\ placeholderAsk' = ResourceAdd(placeholderAsk, SumOfContributions(tgs))
               /\ placeholderAsk = NoResource
                    => placeholderAsk' = SumOfContributions(taskGroups')]_vars

\* after a second call the ask holds the contributions of groups the
\* application no longer holds
C14_Witness ==
    /\ taskGroups = <<TaskGroup("g1", 1)>>
    /\ placeholderAsk = ResourceAdd(Contribution(TaskGroup("g1", 2)),
                                    Contribution(TaskGroup("g1", 1)))

\* C15: a task group contributes, per dimension, the amount of one member
\* rounded up to a whole unit and then multiplied by minMember, not the
\* product rounded up; groups of 10 members of 500m CPU / 500Mi and of 20
\* members of 1000m CPU / 1000Mi set on a new application give the ask
\* CPU 25000 and memory 26230 = 525 * 10 + 1049 * 20.
C15_RoundThenMultiply ==
    [][/\ \A tgs \in TaskGroupLists :
            (placeholderAsk = NoResource /\ SetTaskGroups(tgs))
            => \A d \in {"cpu", "memory"} : placeholderAsk'[d] = SumOfContributions(tgs)[d]
       /\ (/\ placeholderAsk = NoResource
           /\ SetTaskGroups(<<TaskGroup("g1", 10), TaskGroup("g2", 20)>>))
          => /\ placeholderAsk' = [cpu |-> 25000, memory |-> 26230]
             /\ placeholderAsk'.memory = 525 * 10 + 1049 * 20
             /\ placeholderAsk'.memory # RoundUpToM(524288 * 10) + RoundUpToM(1048576 * 20)]_vars

\* the two groups of the test were set on a new application
C15_Witness ==
    /\ taskGroups = <<TaskGroup("g1", 10), TaskGroup("g2", 20)>>
    /\ placeholderAsk = [cpu |-> 25000, memory |-> 26230]

\* goroutine i is inside a method
Inside(i) == threads[i].pc # "idle"

\* C16: every write of a mutable field of the application is made with the
\* application's lock held in exclusive mode and every read of one, by an
\* accessor, by Schedule() or by the gang decision, with the lock held in at
\* least shared mode; hence no two goroutines access a field at the same time
\* with one of them writing it.
C16_LockDiscipline ==
    /\ \A i \in Threads :
          Inside(i) =>
            /\ LockTable[threads[i].op].writes # {} => heldLock(i) = "Lock"
            /\ LockTable[threads[i].op].reads # {} => heldLock(i) \in {"Lock", "RLock"}
    /\ \A i, j \in Threads :
          (i # j /\ Inside(i) /\ Inside(j)) =>
            (LockTable[threads[i].op].writes \ GuardedBySM)
              \cap (LockTable[threads[j].op].reads \cup LockTable[threads[j].op].writes)
            = {}

\* C17: a call of Schedule() triggers at most one event of the application's
\* state machine, handled in the call or dispatched by it, whatever the state
\* of the application: the branch for New handles one Submit and dispatches
\* nothing itself, every other branch dispatches at most one event.
C17_OneEventPerSchedule ==
    [][(sched # "idle" /\ sched' = "idle")
       => IF sched = "New"
          THEN ScheduleNew
          ELSE Len(queue') <= Len(queue) + 1]_vars

\* C18: an application is in Running only after it has been in Accepted and
\* in Accepted only after it has been in Submitted or Recovering: Running is
\* entered from Accepted or from Reserving, Reserving from Accepted, Accepted
\* from Submitted or Recovering, and these two from New. A Run event handled
\* before the application was submitted and accepted is refused with an error
\* and leaves the state unchanged.
C18_LifecycleOrder ==
    [][/\ state' # state =>
            /\ state' = "Running" => state \in {"Accepted", "Reserving"}
            /\ state' = "Reserving" => state = "Accepted"
            /\ state' = "Accepted" => state \in {"Submitted", "Recovering"}
            /\ state' \in {"Submitted", "Recovering"} => state = "New"
       /\ (/\ ret'.ev = RunApplication
           /\ state \in {"New", "Submitted", "Recovering"}
           /\ HandleDirect(RunApplication))
          => (ret'.err = "inappropriate" /\ state' = state)]_vars

\* Run has just been refused on an application that is submitted and not yet
\* accepted
C18_Witness ==
    state = "Submitted" /\ ret = [ev |-> RunApplication, err |-> "inappropriate"]

\* the identifiers that have a task in the map
Present(tm) == {t \in TaskIDs : tm[t] # NoTask}

\* C19: adding a task whose identifier is already in the map leaves the map
\* as it is, the task added first stays registered; adding a task with a new
\* identifier registers it under that identifier alone, so an identifier never
\* maps to more than one task.
C19_AddTaskIdempotent ==
    [][out'.op = "addTask" =>
        LET t == out'.id
            task == out'.task
        IN CallAddTask(t, task)
           => IF t \in Present(taskMap)
              THEN taskMap' = taskMap
              ELSE /\ taskMap'[t] = task
                   /\ Present(taskMap') = Present(taskMap) \cup {t}
                   /\ \A u \in TaskIDs \ {t} : taskMap'[u] = taskMap[u]]_vars

\* a task was added under an identifier the map holds with a different task,
\* and the map kept the one it had
C19_Witness ==
    /\ out.op = "addTask"
    /\ out.id \in Present(taskMap)
    /\ taskMap[out.id] # out.task

\* C20: removeTask deletes the entry of an identifier that is in the map, no
\* other entry, and returns no error; for an identifier that is not in the map
\* it returns a not-found error and leaves the map unchanged. GetTask returns
\* the task of an identifier that is in the map and a not-found error
\* otherwise, and never changes the map.
C20_RemoveAndGet ==
    [][out'.op \in {"removeTask", "GetTask"} =>
        LET t == out'.id IN
        /\ (out'.op = "removeTask" /\ RemoveTask(t))
           => IF t \in Present(taskMap)
              THEN /\ out'.err = "nil"
                   /\ Present(taskMap') = Present(taskMap) \ {t}
                   /\ \A u \in TaskIDs \ {t} : taskMap'[u] = taskMap[u]
              ELSE out'.err = "not found" /\ taskMap' = taskMap
        /\ (out'.op = "GetTask" /\ CallGetTask(t))
           => /\ taskMap' = taskMap
              /\ IF t \in Present(taskMap)
                 THEN out'.err = "nil" /\ out'.task = taskMap[t]
                 ELSE out'.err = "doesn't exist" /\ out'.task = NoTask]_vars

\* a task that is not in the map was removed: not found
C20_Witness ==
    /\ out.op = "removeTask"
    /\ out.err = "not found"
    /\ out.id \notin Present(taskMap)

\* C22: every Update request this application sends, on the Submit and on
\* the Recover transition, holds exactly one new-application descriptor, which
\* carries the application's identifier, queue, partition, user and tags, the
\* placeholder ask as accumulated at that moment, and an execution timeout of
\* the stored placeholder timeout in seconds times 1000.
C22_Descriptor ==
    [][\A e \in {SubmitApplication, RecoverApplication} :
        (ret'.ev = e /\ ret'.err = "nil" /\ HandleDirect(e))
        => /\ Len(out'.request) = 1
           /\ out'.request[1] =
                [ApplicationID |-> "app", QueueName |-> "queue",
                 PartitionName |-> "default", User |-> "user", Tags |-> "tags",
                 PlaceholderAsk |-> placeholderAsk,
                 ExecutionTimeoutMilliSeconds |-> placeholderTimeoutInSec * 1000]]_vars

\* C21: getNonTerminatedTaskAlias returns exactly the aliases of the tasks the
\* application owns that are not in a terminated state: none for an empty
\* map or when every task is terminated, all of them when none is, and only
\* the live ones in a mixed map.
C21_NonTerminatedAliases ==
    [][out'.op = "getNonTerminatedTaskAlias"
        => /\ \A t \in TaskIDs :
                Alias(t) \in out'.aliases
                <=> /\ taskMap[t] # NoTask
                    /\ taskMap[t].state \notin {"Completed", "Killed", "Rejected", "Failed"}
           /\ out'.aliases \subseteq {Alias(t) : t \in TaskIDs}]_vars

C21_Witness ==
    /\ out.op = "getNonTerminatedTaskAlias"
    /\ taskMap[1] # NoTask /\ taskMap[1].state = "Rejected"
    /\ taskMap[2] # NoTask /\ taskMap[2].state = "Allocated"
    /\ out.aliases = {Alias(2)}

C25_ReleaseAllocation ==
    [][\A u \in AllocationUUIDs :
        (/\ ret'.ev = ReleaseAppAllocation
         /\ HandleWith(ReleaseAppAllocation, [ok |-> TRUE, allocationUUID |-> u]))
        => LET holders == {t \in TaskIDs : taskMap[t] # NoTask
                                           /\ taskMap[t].allocationUUID = u}
           IN /\ state' = state
              /\ taskMap' = taskMap
              /\ IF state \in {"Running", "Failed"}
                 THEN /\ ret'.err = "nil"
                      /\ out'.terminated = holders
                      /\ out'.deleted = holders
                 ELSE /\ ret'.err # "nil"
                      /\ out'.terminated = {}
                      /\ out'.deleted = {}]_vars

\* C25 witness: a release in Running that found the allocation on one of two
\* allocated tasks
C25_Witness ==
    /\ state = "Running"
    /\ ret = [ev |-> ReleaseAppAllocation, err |-> "nil"]
    /\ out.deleted = {2}
    /\ out.terminated = {2}
    /\ taskMap[1] # NoTask /\ taskMap[1].allocationUUID = "uuid1"
    /\ taskMap[2] # NoTask /\ taskMap[2].allocationUUID = "uuid2"

\* the events whose callbacks parse arguments
ArgumentEvents == {FailApplication, ReleaseAppAllocation, ReleaseAppAllocationAsk}

\* this step is handle(e) with arguments that do not parse, in a state the
\* table has a row for
MalformedHandled(e) ==
    /\ ret'.ev = e
    /\ \E row \in Transitions : row.name = e /\ state \in row.src
    /\ \E r \in DirectInputs(e) \ Inputs(e) : HandleWith(e, r)

\* the row's destination is reached, no error is returned, and no task is
\* notified, given a termination reason or deleted
TransitionOnly(e) ==
    /\ \E row \in Transitions : row.name = e /\ state \in row.src /\ state' = row.dst
    /\ ret'.err = "nil"
    /\ out'.notified = [t \in TaskIDs |-> 0]
    /\ out'.terminated = {}
    /\ out'.deleted = {}
    /\ taskMap' = taskMap

\* C24 as claimed: a Fail, ReleaseAllocation or ReleaseAllocationAsk event
\* with malformed arguments, handled from a legal state, completes the
\* transition without error and has no side effect at all, the request to
\* clean up the placeholders included.
C24_Original ==
    [][\A e \in ArgumentEvents :
        MalformedHandled(e) => (TransitionOnly(e) /\ pm' = pm)]_vars

\* C24: a Fail, ReleaseAllocation or ReleaseAllocationAsk event with
\* malformed arguments, handled from a legal state, completes the transition
\* without error and notifies, marks and deletes no task; the Fail handler
\* has requested the cleanup of the placeholders before it parses, and that
\* request is the only side effect.
C24_MalformedArguments ==
    [][\A e \in ArgumentEvents :
        MalformedHandled(e)
        => /\ TransitionOnly(e)
           /\ pm' = IF e = FailApplication THEN [pm EXCEPT !.cleanUps = @ + 1] ELSE pm]_vars

\* C24 witness: a Fail whose message did not parse took an application with
\* a new task to Failed; the cleanup was requested and no task was notified
C24_Witness ==
    /\ state = "Failed"
    /\ ret = [ev |-> FailApplication, err |-> "nil"]
    /\ pm.cleanUps = 1
    /\ \E t \in TaskIDs : taskMap[t] # NoTask /\ taskMap[t].state = "New"
    /\ out.notified = [t \in TaskIDs |-> 0]

\* C26: handle never deadlocks on its own lock: no callback it runs calls
\* handle or an accessor that takes the application's lock, so a goroutine
\* inside handle never waits for the lock it holds and every handle call can
\* return and release the lock.
C26_NoSelfDeadlock ==
    \A i \in Threads :
        threads[i].op = "handle" =>
            /\ threads[i].pc \in {"in", "calling"}
            /\ threads[i].call.lock = "none"
            /\ threads[i].call.callee # "handle"

\* C26 witness: the Fail callback, run by handle with the lock held, lists
\* the tasks through getTasks
C26_Witness ==
    \E i \in Threads :
        /\ threads[i].op = "handle"
        /\ heldLock(i) = "Lock"
        /\ threads[i].pc = "calling"
        /\ threads[i].call.callback = "handleFailApplicationEvent"
        /\ threads[i].call.callee = "getTasks"

\* C27: no external I/O (Scheduler API Update, pod deletion, placeholder
\* creation or cleanup) is performed while the application's lock is held;
\* a callback that needs it starts it in a goroutine of its own.
C27_NoIOUnderLock ==
    \A i \in Threads :
        (heldLock(i) # "none" /\ threads[i].call.io) => threads[i].call.go

\* the recovery of this step called Update and got an error
RecoverFailed ==
    /\ state = "New"
    /\ state' = "Recovering"
    /\ api'.updates = api.updates + 1
    /\ ~api'.ok

\* C28: when the Update call of Recover returns an error a Fail event is
\* dispatched, and once it is delivered the application reaches Failed: it
\* does not remain in Recovering.
C28_RecoverFailure ==
    /\ [][ RecoverFailed => queue' = Append(queue, Event(FailApplication, "recover")) ]_vars
    /\ (state = "Recovering" /\ ~api.ok) ~> (state = "Failed")

\* C29: Schedule() called in Submitted, Recovering, Completed, Rejected,
\* Failed, Killing or Killed does nothing: no state change, nothing
\* dispatched, no task touched, no call of the scheduler API. Called in New
\* it handles Submit within the call and does nothing else: the application
\* is Submitted, Update was called once, and the only event dispatched is the
\* Fail event of a failed Update.
C29_ScheduleNoOp ==
    [][ /\ (/\ state \in {"Submitted", "Recovering", "Completed", "Rejected",
                           "Failed", "Killing", "Killed"}
            /\ ScheduleRead)
           => /\ sched' = "idle"
              /\ UNCHANGED <<state, taskGroups, taskMap, queue, api, pm, placeholderAsk>>
        /\ (sched = "New" /\ sched' = "idle" /\ state = "New")
           => /\ state' = "Submitted"
              /\ api'.updates = api.updates + 1
              /\ queue' = IF api'.ok THEN queue
                          ELSE Append(queue, Event(FailApplication, "submit"))
              /\ UNCHANGED <<taskGroups, taskMap, pm, placeholderAsk>> ]_vars

\* C29 witness: Schedule() submitted a new application, the scheduler API
\* took the request, and nothing was dispatched
C29_Witness ==
    /\ state = "Submitted"
    /\ sched = "idle"
    /\ api = [updates |-> 1, ok |-> TRUE]
    /\ queue = <<>>
    /\ taskMap = [t \in TaskIDs |-> NoTask]

\* C30: a scheduleTasks call sends InitTask only to the tasks that are New,
\* match the class filter of the call (placeholders in Reserving, the others
\* in Running) and pass their sanity check; a task past New is not sent it
\* again; a selected task whose sanity check fails gets exactly one warning
\* notification in the call and stays New, and the other tasks of the call
\* are advanced all the same.
C30_ScheduleTasks ==
    [][\A pass \in SUBSET TaskIDs :
        (out'.op = "scheduleTasks" /\ CallScheduleTasks(pass))
        => \A t \in TaskIDs :
            IF /\ taskMap[t] # NoTask
               /\ taskMap[t].state = "New"
               /\ taskMap[t].placeholder = (sched = "Reserving")
            THEN IF t \in pass
                 THEN /\ taskMap'[t] = [taskMap[t] EXCEPT !.state = "Pending"]
                      /\ out'.notified[t] = 0
                 ELSE /\ taskMap'[t] = taskMap[t]
                      /\ out'.notified[t] = 1
            ELSE /\ taskMap'[t] = taskMap[t]
                 /\ out'.notified[t] = 0]_vars

\* C30 witness: one call warned about the first task, which stays New, and
\* advanced the second
C30_Witness ==
    /\ out.op = "scheduleTasks"
    /\ out.notified[1] = 1
    /\ taskMap[1] # NoTask /\ taskMap[1].state = "New"
    /\ out.notified[2] = 0
    /\ taskMap[2] # NoTask /\ taskMap[2].state = "Pending"
    /\ taskMap[1].placeholder = taskMap[2].placeholder

\* C31: with Schedule() and handle running concurrently, a task is sent
\* InitTask (New -> Pending) only while the application is in the state that
\* permits its class: a placeholder only in Reserving, any other task only in
\* Running; hence none in Failed, Killing, Killed or Completed.
C31_AdvanceInState ==
    [][\A t \in TaskIDs :
        (/\ taskMap[t] # NoTask
         /\ taskMap[t].state = "New"
         /\ taskMap'[t].state = "Pending")
        => state = IF taskMap[t].placeholder THEN "Reserving" ELSE "Running"]_vars

\* C32: createAppPlaceholders is invoked at most once for an application, on
\* its single entry into Reserving, whatever the interleaving of Schedule()
\* calls and delivered events: repeated Schedule() calls while Accepted,
\* duplicate TryReserve events and repeated UpdateReservation events start no
\* second creation.
C32_CreateOnce ==
    /\ [][ /\ pm'.createCalls # pm.createCalls
                => (/\ state = "Accepted"
                    /\ state' = "Reserving"
                    /\ pm.createCalls = 0
                    /\ pm'.createCalls = 1)
           /\ (state # "Reserving" /\ state' = "Reserving")
                => (pm.createCalls = 0 /\ pm'.createCalls = 1) ]_vars
    /\ [](pm.createCalls \in {0, 1})

\* C32 witness: the application reserved, the placeholders were created once,
\* the duplicate TryReserve has been delivered and the application runs
C32_Witness ==
    /\ state = "Running"
    /\ hist.first = "reserve"
    /\ pm.createCalls = 1
    /\ pm.creating = "done"
    /\ queue = <<>>

\* the dispatcher delivers the Fail event that the Reject callback dispatched
RejectFailDelivered ==
    /\ out'.op = "deliver"
    /\ queue # <<>>
    /\ Head(queue) = Event(FailApplication, "reject")
    /\ DeliverRecorded

\* C33: Reject handled in Submitted takes the application to Rejected and
\* dispatches one Fail event for it; when that event is delivered the
\* application is in Failed, and delivered in Rejected it requests the
\* placeholder cleanup and notifies the tasks that are New, Pending or
\* Scheduling, as any Fail does; a rejected application eventually is Failed.
C33_RejectedFails ==
    /\ [][ /\ (/\ ret'.ev = RejectApplication
                /\ state = "Submitted"
                /\ HandleDirect(RejectApplication))
               => (/\ state' = "Rejected"
                   /\ ret'.err = "nil"
                   /\ queue' = Append(queue, Event(FailApplication, "reject")))
           /\ RejectFailDelivered
               => (/\ state' = "Failed"
                   /\ state \in {"Rejected", "Failed"}
                   /\ pm'.cleanUps = 1
                   /\ state = "Rejected"
                        => (/\ pm.cleanUps = 0
                            /\ ret'.err = "nil"
                            /\ \A t \in TaskIDs :
                                 out'.notified[t] =
                                    IF taskMap[t].state \in {"New", "Pending", "Scheduling"}
                                    THEN 1 ELSE 0)) ]_vars
    /\ (state = "Rejected") ~> (state = "Failed")

\* C33 witness: the Fail event of a rejection was delivered; the application
\* is Failed, the cleanup was requested and the new task was notified
C33_Witness ==
    /\ state = "Failed"
    /\ api.ok
    /\ out.op = "deliver"
    /\ ret = [ev |-> FailApplication, err |-> "nil"]
    /\ pm.cleanUps = 1
    /\ \E t \in TaskIDs : taskMap[t].state = "New" /\ out.notified[t] = 1

====
